---- MODULE Spec2Model ----
(***************************************************************************)
(* A model of src/utils.js of htmlpm: the protect/unprotect pass over      *)
(* ignored elements (ignoreElement, protectElement, unprotectElement), the *)
(* recursive merge (mergeObjects, mergeConfig) and the configuration       *)
(* validator (validateConfig).                                             *)
(*                                                                         *)
(* A JavaScript string is a sequence of one-character strings.  A          *)
(* JavaScript value is a record of one shape (see V below).  Objects and    *)
(* arrays live in a heap, a sequence of cells addressed by index, so that  *)
(* two references to the same object are the same address.                 *)
(***************************************************************************)
EXTENDS Integers, Sequences, FiniteSets, TLC

VARIABLES
    html,     \* ignoreElement: the string handed to protect mode
    ignore,   \* ignoreElement: the ignore list
    out,      \* ignoreElement: the string protect mode returned
    back,     \* ignoreElement: the string unprotect mode returned
    gpc,      \* ignoreElement: "start", "protected" or "unprotected"
    heap,     \* the objects and arrays of the program
    arg,      \* the argument(s) of the last call, as values
    before,   \* the deep value of the argument when the call began
    res,      \* the outcome of the last call
    base,     \* the deep value of the default configuration when the call began
    touched   \* has the caller changed the returned value since the call?

vars == <<html, ignore, out, back, gpc, heap, arg, before, res, base, touched>>
guardVars == <<html, ignore, out, back, gpc>>
objVars == <<heap, arg, before, res, base, touched>>

----------------------------------------------------------------------------
(* Characters and strings *)

LT == "<"
GT == ">"
NL == "\n"
CR == "\r"
SP == " "
TAB == "\t"

\* What the regular expression /(.|\n)/ matches: any character but the line
\* terminators other than \n (of this alphabet, \r).
DotOrNl(c) == c # CR

\* What /\s/ matches, of this alphabet.
Space == {SP, TAB, NL, CR}

Min(S) == CHOOSE m \in S : \A k \in S : m <= k

\* String.prototype.indexOf(pat, from), 1-based; 0 when pat does not occur.
\* The empty pattern occurs at from.
IndexOf(s, pat, from) ==
    LET I == {i \in from..(Len(s) - Len(pat) + 1) :
                  SubSeq(s, i, i + Len(pat) - 1) = pat}
    IN  IF I = {} THEN 0 ELSE Min(I)

\* s.replace(pat, rep) with a string pattern: the first occurrence only.
ReplaceFirst(s, pat, rep) ==
    LET i == IndexOf(s, pat, 1)
    IN  IF i = 0 THEN s
        ELSE SubSeq(s, 1, i - 1) \o rep \o SubSeq(s, i + Len(pat), Len(s))

\* s.replace(/c/g, rep) for a one-character pattern or the class \s.
RECURSIVE ReplaceChars(_, _, _)
ReplaceChars(s, cs, rep) ==
    IF s = <<>> THEN <<>>
    ELSE (IF Head(s) \in cs THEN rep ELSE <<Head(s)>>)
             \o ReplaceChars(Tail(s), cs, rep)

\* s.replace(new RegExp(pat, "g"), rep) for a literal, non-empty pattern:
\* left to right, without rescanning what was replaced.
RECURSIVE ReplaceAll(_, _, _)
ReplaceAll(s, pat, rep) ==
    IF Len(s) < Len(pat) THEN s
    ELSE IF SubSeq(s, 1, Len(pat)) = pat
         THEN rep \o ReplaceAll(SubSeq(s, Len(pat) + 1, Len(s)), pat, rep)
         ELSE <<Head(s)>> \o ReplaceAll(Tail(s), pat, rep)

\* '-' + protectionString + kind + '-'
Sentinel(ps, kind) == <<"-">> \o ps \o kind \o <<"-">>

----------------------------------------------------------------------------
(* ContentGuard: ignoreElement, protectElement, unprotectElement *)

\* The replacer protectElement hands to match.replace(capture, ...).
ProtectText(m, ps) ==
    LET s1 == ReplaceChars(m, {LT}, Sentinel(ps, <<"l", "t">>))
        s2 == ReplaceChars(s1, {GT}, Sentinel(ps, <<"g", "t">>))
        s3 == ReplaceChars(s2, {NL}, Sentinel(ps, <<"n", "l">>))
        s4 == ReplaceChars(s3, {CR}, Sentinel(ps, <<"c", "r">>))
    IN  ReplaceChars(s4, Space, Sentinel(ps, <<"w", "s">>))

protectElement(match, capture, ps) ==
    ReplaceFirst(match, capture, ProtectText(capture, ps))

\* The replacer unprotectElement hands to match.replace(capture, ...).
UnprotectText(m, ps) ==
    LET s1 == ReplaceAll(m, Sentinel(ps, <<"l", "t">>), <<LT>>)
        s2 == ReplaceAll(s1, Sentinel(ps, <<"g", "t">>), <<GT>>)
        s3 == ReplaceAll(s2, Sentinel(ps, <<"n", "l">>), <<NL>>)
        s4 == ReplaceAll(s3, Sentinel(ps, <<"c", "r">>), <<CR>>)
    IN  ReplaceAll(s4, Sentinel(ps, <<"w", "s">>), <<SP>>)

unprotectElement(match, capture, ps) ==
    ReplaceFirst(match, capture, UnprotectText(capture, ps))

OpenTag(name) == <<LT>> \o name
CloseTag(name) == <<LT, "/">> \o name \o <<GT>>

\* The match of <name[^>]*>((.|\n)*?)</name> that starts at i, if any:
\* [^>]* is greedy and can only stop at the first '>', the lazy group
\* stops at the first closing tag after it, and none of its characters may
\* be one that (.|\n) refuses.  gt is the index of the '>' of the opening
\* tag, cl the index of the closing tag.
MatchAt(s, name, i) ==
    LET o == OpenTag(name)
        c == CloseTag(name)
        isOpen == i + Len(o) - 1 <= Len(s) /\ SubSeq(s, i, i + Len(o) - 1) = o
        gt == IndexOf(s, <<GT>>, i + Len(o))
        cl == IF gt = 0 THEN 0 ELSE IndexOf(s, c, gt + 1)
        okInner == \A k \in (gt + 1)..(cl - 1) : DotOrNl(s[k])
    IN  IF isOpen /\ gt # 0 /\ cl # 0 /\ okInner
        THEN [ok |-> TRUE, gt |-> gt, cl |-> cl, end |-> cl + Len(c) - 1]
        ELSE [ok |-> FALSE, gt |-> 0, cl |-> 0, end |-> 0]

\* html.replace(regex, replacer) with the "g" flag, from position pos on:
\* the leftmost match, replaced, then on from its end.
RECURSIVE ReplaceElements(_, _, _, _, _)
ReplaceElements(s, name, mode, ps, pos) ==
    LET starts == {i \in pos..Len(s) : MatchAt(s, name, i).ok}
    IN  IF starts = {} THEN SubSeq(s, pos, Len(s))
        ELSE LET i == Min(starts)
                 m == MatchAt(s, name, i)
                 match == SubSeq(s, i, m.end)
                 capture == SubSeq(s, m.gt + 1, m.cl - 1)
                 rep == IF mode = "protect"
                        THEN protectElement(match, capture, ps)
                        ELSE unprotectElement(match, capture, ps)
             IN  SubSeq(s, pos, i - 1) \o rep
                     \o ReplaceElements(s, name, mode, ps, m.end + 1)

\* The loop of ignoreElement, from entry e of the ignore list on.
RECURSIVE IgnoreFrom(_, _, _, _, _)
IgnoreFrom(s, ign, mode, ps, e) ==
    IF e > Len(ign) THEN s
    ELSE IgnoreFrom(ReplaceElements(s, ign[e], mode, ps, 1), ign, mode, ps, e + 1)

ignoreElement(s, ign, mode, ps) == IgnoreFrom(s, ign, mode, ps, 1)

----------------------------------------------------------------------------
(* JavaScript values and the heap *)

\* One shape for every value, literal and heap cell: t is the kind, n the
\* number (its floor), boolean (0/1) or address, s the string, the fraction
\* of a number ("" or ".5") or the name of a special number ("NaN",
\* "Infinity"), keys the own keys of an object in insertion order, vals
\* the values of an object's keys or the elements of an array.
V(t, n, s, keys, vals) == [t |-> t, n |-> n, s |-> s, keys |-> keys, vals |-> vals]

Undef == V("undef", 0, "", <<>>, <<>>)
Null == V("null", 0, "", <<>>, <<>>)
Bool(b) == V("bool", IF b THEN 1 ELSE 0, "", <<>>, <<>>)
Num(n) == V("num", n, "", <<>>, <<>>)
Half(n) == V("num", n, ".5", <<>>, <<>>)      \* n + 0.5
NaN == V("num", 0, "NaN", <<>>, <<>>)
Infinity == V("num", 0, "Infinity", <<>>, <<>>)
Str(x) == V("str", 0, x, <<>>, <<>>)
Ref(a) == V("ref", a, "", <<>>, <<>>)
Obj(keys, vals) == V("obj", 0, "", keys, vals)
Arr(vals) == V("arr", 0, "", <<>>, vals)

IsRef(v) == v.t = "ref"
IsComposite(v) == v.t \in {"obj", "arr"}

\* typeof v
TypeOf(v) ==
    CASE v.t = "undef" -> "undefined"
      [] v.t = "bool" -> "boolean"
      [] v.t = "num" -> "number"
      [] v.t = "str" -> "string"
      [] OTHER -> "object"           \* null, objects and arrays

\* The truthiness of v, as in if (v), !v and v || w.
Truthy(v) ==
    CASE v.t = "undef" -> FALSE
      [] v.t = "null" -> FALSE
      [] v.t = "bool" -> v.n = 1
      [] v.t = "num" -> v.s # "NaN" /\ ~(v.n = 0 /\ v.s = "")
      [] v.t = "str" -> v.s # ""
      [] OTHER -> TRUE

\* Array.isArray(v)
IsArray(h, v) == IsRef(v) /\ h[v.n].t = "arr"

\* The own keys of a cell: those of an object in insertion order, the
\* indices of an array.
OwnKeys(cell) ==
    IF cell.t = "arr" THEN [i \in 1..Len(cell.vals) |-> ToString(i - 1)]
    ELSE cell.keys

\* Object.keys(v); none for the primitives of the model (no string
\* primitive is ever merged in).
Keys(h, v) == IF IsRef(v) THEN OwnKeys(h[v.n]) ELSE <<>>

KeyIndex(cell, k) ==
    LET I == {i \in 1..Len(OwnKeys(cell)) : OwnKeys(cell)[i] = k}
    IN  IF I = {} THEN 0 ELSE Min(I)

\* Object.hasOwn(cell, k)
HasOwn(cell, k) == KeyIndex(cell, k) # 0

\* cell[k]
Get(cell, k) == IF HasOwn(cell, k) THEN cell.vals[KeyIndex(cell, k)] ELSE Undef

\* cell[k] = v, on an object
Put(cell, k, v) ==
    IF HasOwn(cell, k)
    THEN [cell EXCEPT !.vals[KeyIndex(cell, k)] = v]
    ELSE [cell EXCEPT !.keys = Append(@, k), !.vals = Append(@, v)]

\* The heap with a new cell; its address is the length of the new heap.
Alloc(h, cell) == Append(h, cell)

\* The outcome of a call: a returned value or a thrown error, and the heap
\* as the call left it.
Return(h, v) == [status |-> "ok", h |-> h, v |-> v, err |-> ""]
Throw(h, err) == [status |-> "throw", h |-> h, v |-> Undef, err |-> err]

\* structuredClone(v): a deep copy, every object and array of it a new cell.
RECURSIVE structuredClone(_, _), CloneEach(_, _, _)
structuredClone(h, v) ==
    IF ~IsRef(v) THEN Return(h, v)
    ELSE LET r == CloneEach(h, h[v.n].vals, 1)
             h2 == Alloc(r.h, [h[v.n] EXCEPT !.vals = r.vals])
         IN  Return(h2, Ref(Len(h2)))

CloneEach(h, vals, i) ==
    IF i > Len(vals) THEN [h |-> h, vals |-> vals]
    ELSE LET r == structuredClone(h, vals[i])
         IN  CloneEach(r.h, [vals EXCEPT ![i] = r.v], i + 1)

\* A literal (a tree of Obj, Arr and primitives) built in the heap.
RECURSIVE Build(_, _), BuildEach(_, _, _)
Build(h, lit) ==
    IF ~IsComposite(lit) THEN Return(h, lit)
    ELSE LET r == BuildEach(h, lit.vals, 1)
             h2 == Alloc(r.h, [lit EXCEPT !.vals = r.vals])
         IN  Return(h2, Ref(Len(h2)))

BuildEach(h, vals, i) ==
    IF i > Len(vals) THEN [h |-> h, vals |-> vals]
    ELSE LET r == Build(h, vals[i])
         IN  BuildEach(r.h, [vals EXCEPT ![i] = r.v], i + 1)

\* The value v of heap h as a literal: what a deep comparison sees.
RECURSIVE Deep(_, _)
Deep(h, v) ==
    IF ~IsRef(v) THEN v
    ELSE [h[v.n] EXCEPT !.vals = [i \in 1..Len(h[v.n].vals) |-> Deep(h, h[v.n].vals[i])]]

\* The addresses reachable from v.
RECURSIVE Reach(_, _)
Reach(h, v) ==
    IF ~IsRef(v) THEN {}
    ELSE {v.n} \cup UNION {Reach(h, h[v.n].vals[i]) : i \in 1..Len(h[v.n].vals)}

----------------------------------------------------------------------------
(* DeepMerger: mergeObjects, mergeConfig *)

ErrMerge == "Both 'current' and 'updates' must be passed-in to merge()"

\* A merge that lets the update replace the list instead of extending it.
ConcatOverwrites(a, b) == b

\* structuredClone(current).concat(updates): a new array of the elements of
\* the copy, then those of updates (updates itself when it is no array).
Concat(a, b) == a \o b

Spreadable(h, v) == IF IsArray(h, v) THEN h[v.n].vals ELSE <<v>>

\* mergeObjects(current, updates), and its loop over Object.keys(updates)
\* from key i on, merged being the address of the copy of current.
RECURSIVE mergeObjects(_, _, _), MergeKeys(_, _, _, _)
mergeObjects(h, current, updates) ==
    IF ~Truthy(current) \/ ~Truthy(updates) THEN Throw(h, ErrMerge)
    ELSE IF IsArray(h, current)
    THEN LET c == structuredClone(h, current)
             h2 == Alloc(c.h, Arr(Concat(c.h[c.v.n].vals, Spreadable(c.h, updates))))
         IN  Return(h2, Ref(Len(h2)))
    ELSE IF TypeOf(current) = "object"
    THEN LET h2 == Alloc(h, h[current.n])          \* { ...current }
         IN  MergeKeys(h2, Len(h2), updates, 1)
    ELSE Return(h, Undef)                          \* merged is never assigned

MergeKeys(h, merged, updates, i) ==
    IF i > Len(Keys(h, updates)) THEN Return(h, Ref(merged))
    ELSE LET key == Keys(h, updates)[i]
             u == Get(h[updates.n], key)
         IN  IF TypeOf(u) # "object"
             THEN MergeKeys([h EXCEPT ![merged] = Put(@, key, u)], merged, updates, i + 1)
             ELSE LET m == Get(h[merged], key)
                      h2 == IF Truthy(m) THEN h ELSE Alloc(h, Obj(<<>>, <<>>))
                      cur == IF Truthy(m) THEN m ELSE Ref(Len(h2))
                      r == mergeObjects(h2, cur, u)
                  IN  IF r.status = "throw" THEN r
                      ELSE MergeKeys([r.h EXCEPT ![merged] = Put(@, key, r.v)],
                                     merged, updates, i + 1)

\* mergeConfig(dconfig, config)
mergeConfig(h, dconfig, config) ==
    LET c == structuredClone(h, dconfig)
    IN  mergeObjects(c.h, c.v, config)

----------------------------------------------------------------------------
(* ConfigValidator: validateConfig over the process-wide CONFIG *)

\* The default configuration of constants.js, the heap when the module is
\* loaded (CONFIG and its two lists) and the address of CONFIG in it.
DefaultConfig ==
    Obj(<<"tab_size", "strict", "ignore", "trim", "ignore_with">>,
        <<Num(4), Bool(FALSE), Arr(<<>>), Arr(<<>>), Str("x")>>)

InitHeap == Build(<<>>, DefaultConfig).h

CONFIG == Len(InitHeap)

\* The errors, by the fixed part of their messages.
ErrObject == "Config must be an object."
ErrType == "TypeError: Cannot convert undefined or null to object"
ErrTabNumber == "Tab size must be a number."
ErrTabSafe == "Tab size is not safe."
ErrTabRange == "Tab size out of range. Expecting 1 to 16."
ErrStrict == "Strict config must be a boolean."
ErrIgnore == "Ignore config must be an array of strings."
ErrIgnoreWith == "Ignore_with config must be a string."
ErrTrim == "Trim config must be an array of strings."

\* Number.isFinite(v) in the place of Number.isSafeInteger(v).
IsFiniteNumber(v) == v.t = "num" /\ v.s \notin {"NaN", "Infinity"}

\* Number.isSafeInteger(v): a number with no fraction that is neither NaN
\* nor infinite; every finite number of the model is within 2^53.
IsSafeInteger(v) == v.t = "num" /\ v.s = ""

\* Math.floor(v) of a finite number
Floor(v) == [v EXCEPT !.s = ""]

\* Array.isArray(v) && v.every((e) => typeof e === 'string')
IsStringArray(h, v) ==
    IsArray(h, v) /\ \A i \in 1..Len(h[v.n].vals) : TypeOf(h[v.n].vals[i]) = "string"

\* Lines 156-171: the checks of tab_size, and the write back into config.
CheckTabSize(h, config) ==
    LET tab_size == Get(h[config.n], "tab_size")
    IN  IF ~Truthy(tab_size) THEN Return(h, Undef)
        ELSE IF TypeOf(tab_size) # "number" THEN Throw(h, ErrTabNumber)
        ELSE IF ~IsSafeInteger(tab_size) THEN Throw(h, ErrTabSafe)
        ELSE IF Floor(tab_size).n < 1 \/ Floor(tab_size).n > 16 THEN Throw(h, ErrTabRange)
        ELSE Return([h EXCEPT ![config.n] = Put(@, "tab_size", Floor(tab_size))], Undef)

\* Lines 173-180: the checks of strict, ignore, ignore_with and trim.
CheckFields(h, config) ==
    LET c == h[config.n]
    IN  IF HasOwn(c, "strict") /\ TypeOf(Get(c, "strict")) # "boolean"
        THEN Throw(h, ErrStrict)
        ELSE IF HasOwn(c, "ignore") /\ ~IsStringArray(h, Get(c, "ignore"))
        THEN Throw(h, ErrIgnore)
        ELSE IF HasOwn(c, "ignore_with") /\ TypeOf(Get(c, "ignore_with")) # "string"
        THEN Throw(h, ErrIgnoreWith)
        ELSE IF HasOwn(c, "trim") /\ ~IsStringArray(h, Get(c, "trim"))
        THEN Throw(h, ErrTrim)
        ELSE Return(h, Undef)

ConfigFields == {"tab_size", "strict", "ignore", "trim", "ignore_with"}

validateConfig(h, config) ==
    IF TypeOf(config) # "object" THEN Throw(h, ErrObject)
    ELSE IF ~IsRef(config) THEN Throw(h, ErrType)      \* Object.hasOwn(null, ...)
    ELSE IF \A f \in ConfigFields : ~HasOwn(h[config.n], f) THEN Return(h, Ref(CONFIG))
    ELSE LET t == CheckTabSize(h, config)
         IN  IF t.status = "throw" THEN t
             ELSE LET f == CheckFields(t.h, config)
                  IN  IF f.status = "throw" THEN f
                      ELSE mergeConfig(f.h, Ref(CONFIG), config)

----------------------------------------------------------------------------
(* The callers of validateConfig, mergeConfig and mergeObjects *)

\* The longest array the caller pushes onto.
MaxArr == 2

\* A field the caller leaves out of an object literal.
Absent == V("absent", 0, "", <<>>, <<>>)

\* The object literal of the fields that are not Absent, in the order given.
Literal(keys, vals) ==
    LET I == {i \in 1..Len(keys) : vals[i] # Absent}
        Nth(n) == CHOOSE i \in I : Cardinality({j \in I : j < i}) = n - 1
    IN  Obj([n \in 1..Cardinality(I) |-> keys[Nth(n)]],
            [n \in 1..Cardinality(I) |-> vals[Nth(n)]])

TabSizes ==
    { Absent, Num(0), Num(1), Num(4), Num(16), Num(17), Num(-1), Half(4), Half(0),
      NaN, Infinity, Null, Bool(FALSE), Bool(TRUE), Str(""), Str("4") }
Stricts == { Absent, Bool(TRUE), Str("yes") }
Ignores == { Absent, Arr(<<Str("pre")>>), Arr(<<Num(1)>>), Str("pre") }
IgnoreWiths == { Absent, Str("y"), Num(5) }
Trims == { Absent, Arr(<<Str("pre")>>), Str("pre") }

\* The user configurations handed to validateConfig: every choice of the
\* five fields, and the values that are no plain object.
ObjectConfigs ==
    { Literal(<<"tab_size", "strict", "ignore", "ignore_with", "trim">>,
              <<t, st, ig, iw, tr>>) :
          t \in TabSizes, st \in Stricts, ig \in Ignores, iw \in IgnoreWiths, tr \in Trims }

UserConfigs ==
    ObjectConfigs \cup { Undef, Null, Num(4), Str("x"), Bool(TRUE), Arr(<<>>), Arr(<<Str("pre")>>) }

\* The configurations handed to mergeConfig, which assumes them validated.
ValidConfigs ==
    { Literal(<<"tab_size", "strict", "ignore", "ignore_with", "trim">>,
              <<t, st, ig, iw, tr>>) :
          t \in {Absent, Num(1), Num(16)}, st \in {Absent, Bool(TRUE)},
          ig \in {Absent, Arr(<<Str("pre")>>)}, iw \in {Absent, Str("y")},
          tr \in {Absent, Arr(<<Str("pre")>>)} }

\* The operands handed to mergeObjects.
Currents ==
    { Obj(<<>>, <<>>),
      Obj(<<"a", "n">>, <<Obj(<<"x">>, <<Num(1)>>), Num(1)>>),
      Obj(<<"l", "n">>, <<Arr(<<Num(1)>>), Num(1)>>),
      Arr(<<>>),
      Arr(<<Num(1), Num(2)>>),
      Arr(<<Num(1), Arr(<<Num(2)>>)>>),
      Null }

Updates ==
    { Obj(<<>>, <<>>),
      Obj(<<"b">>, <<Num(2)>>),
      Obj(<<"n">>, <<Num(2)>>),
      Obj(<<"a">>, <<Obj(<<"y">>, <<Num(2)>>)>>),
      Obj(<<"l">>, <<Arr(<<Num(2)>>)>>),
      Arr(<<>>),
      Arr(<<Num(2)>>),
      Arr(<<Num(2), Num(3)>>),
      Undef }

Idle == [fn |-> "", status |-> "none", v |-> Undef, err |-> ""]

Outcome(fn, r) == [fn |-> fn, status |-> r.status, v |-> r.v, err |-> r.err]

InitObj ==
    /\ heap = InitHeap
    /\ arg = <<>>
    /\ before = <<>>
    /\ res = Idle
    /\ base = DefaultConfig
    /\ touched = FALSE
    /\ html = <<>>
    /\ ignore = <<>>
    /\ out = <<>>
    /\ back = <<>>
    /\ gpc = "idle"

\* The caller builds a user configuration and calls validateConfig.
ValidateConfigCall ==
    /\ res.status = "none"
    /\ \E lit \in UserConfigs :
           LET b == Build(heap, lit)
               r == validateConfig(b.h, b.v)
           IN  /\ heap' = r.h
               /\ arg' = <<b.v>>
               /\ before' = <<lit>>
               /\ res' = Outcome("validateConfig", r)
    /\ base' = Deep(heap, Ref(CONFIG))
    /\ touched' = FALSE
    /\ UNCHANGED guardVars

\* The caller builds a validated configuration and calls mergeConfig on CONFIG.
MergeConfigCall ==
    /\ res.status = "none"
    /\ \E lit \in ValidConfigs :
           LET b == Build(heap, lit)
               r == mergeConfig(b.h, Ref(CONFIG), b.v)
           IN  /\ heap' = r.h
               /\ arg' = <<Ref(CONFIG), b.v>>
               /\ before' = <<Deep(heap, Ref(CONFIG)), lit>>
               /\ res' = Outcome("mergeConfig", r)
    /\ base' = Deep(heap, Ref(CONFIG))
    /\ touched' = FALSE
    /\ UNCHANGED guardVars

\* mergeObjects is called on two operands.
MergeObjectsCall ==
    /\ res.status = "none"
    /\ \E c \in Currents, u \in Updates :
           LET bc == Build(heap, c)
               bu == Build(bc.h, u)
               r == mergeObjects(bu.h, bc.v, bu.v)
           IN  /\ heap' = r.h
               /\ arg' = <<bc.v, bu.v>>
               /\ before' = <<c, u>>
               /\ res' = Outcome("mergeObjects", r)
    /\ base' = Deep(heap, Ref(CONFIG))
    /\ touched' = FALSE
    /\ UNCHANGED guardVars

\* The caller reassigns a numeric field of an object of the returned value.
Reassign ==
    /\ res.status = "ok"
    /\ \E a \in Reach(heap, res.v) :
           /\ heap[a].t = "obj"
           /\ \E i \in 1..Len(heap[a].keys) :
                  /\ heap[a].vals[i].t = "num"
                  /\ heap[a].vals[i] # Num(8)
                  /\ heap' = [heap EXCEPT ![a].vals[i] = Num(8)]
    /\ touched' = TRUE
    /\ UNCHANGED <<arg, before, res, base>>
    /\ UNCHANGED guardVars

\* The caller pushes onto an array of the returned value.
Push ==
    /\ res.status = "ok"
    /\ \E a \in Reach(heap, res.v) :
           /\ heap[a].t = "arr"
           /\ Len(heap[a].vals) < MaxArr
           /\ heap' = [heap EXCEPT ![a].vals = Append(@, Str("z"))]
    /\ touched' = TRUE
    /\ UNCHANGED <<arg, before, res, base>>
    /\ UNCHANGED guardVars

\* The caller is done with the call: its argument and the returned value
\* are dropped, and only CONFIG and its lists stay reachable.
Discard ==
    /\ res.status # "none"
    /\ heap' = SubSeq(heap, 1, CONFIG)
    /\ arg' = <<>>
    /\ before' = <<>>
    /\ res' = Idle
    /\ base' = Deep(heap, Ref(CONFIG))
    /\ touched' = FALSE
    /\ UNCHANGED guardVars

Next == ValidateConfigCall \/ MergeConfigCall \/ MergeObjectsCall
            \/ Reassign \/ Push \/ Discard

Spec == InitObj /\ [][Next]_vars

----------------------------------------------------------------------------
(* The caller of ignoreElement: protect, (format,) unprotect *)

\* The longest input, in pieces.
MaxPieces == 4

\* The pieces inputs are made of: tags of the elements a and b, an opening
\* tag with an attribute, text and the whitespace characters.  None holds a
\* '-', so no input holds a sentinel-shaped substring.
Pieces ==
    { <<LT, "a", GT>>, <<LT, "/", "a", GT>>, <<LT, "b", GT>>, <<LT, "/", "b", GT>>,
      <<LT, "a", SP, "t", GT>>, <<SP>>, <<TAB>>, <<NL>>, <<CR>>, <<"t">> }

RECURSIVE Flatten(_)
Flatten(ps) == IF ps = <<>> THEN <<>> ELSE Head(ps) \o Flatten(Tail(ps))

IgnoreLists == {<<>>, <<<<"a">>>>, <<<<"b">>>>, <<<<"a">>, <<"b">>>>, <<<<"b">>, <<"a">>>>}

\* The sentinel prefix of the round trip, "x".
Prefix == <<"x">>

\* The state of the configuration side while the guard is exercised.
ObjIdle ==
    /\ heap = InitHeap
    /\ arg = <<>>
    /\ before = <<>>
    /\ res = Idle
    /\ base = DefaultConfig
    /\ touched = FALSE

InitGuard ==
    /\ \E n \in 0..MaxPieces : \E ps \in [1..n -> Pieces] : html = Flatten(ps)
    /\ ignore \in IgnoreLists
    /\ out = <<>>
    /\ back = <<>>
    /\ gpc = "start"
    /\ ObjIdle

Protect ==
    /\ gpc = "start"
    /\ out' = ignoreElement(html, ignore, "protect", Prefix)
    /\ gpc' = "protected"
    /\ UNCHANGED <<html, ignore, back>>
    /\ UNCHANGED objVars

Unprotect ==
    /\ gpc = "protected"
    /\ back' = ignoreElement(out, ignore, "unprotect", Prefix)
    /\ gpc' = "unprotected"
    /\ UNCHANGED <<html, ignore, out>>
    /\ UNCHANGED objVars

NextGuard == Protect \/ Unprotect

SpecGuard == InitGuard /\ [][NextGuard]_vars

----------------------------------------------------------------------------
(* Properties of ContentGuard *)

\* C1: round trip of ignoreElement: unprotecting what protect mode returned,
\* with the same ignore list and prefix, gives back the input character for
\* character (no input holds a sentinel-shaped substring).
C1_RoundTrip == gpc = "unprotected" => back = html

\* The sentinel of one character of inner content.
Escaped(c, ps) ==
    CASE c = LT -> Sentinel(ps, <<"l", "t">>)
      [] c = GT -> Sentinel(ps, <<"g", "t">>)
      [] c = NL -> Sentinel(ps, <<"n", "l">>)
      [] c = CR -> Sentinel(ps, <<"c", "r">>)
      [] c \in Space -> Sentinel(ps, <<"w", "s">>)
      [] OTHER -> <<c>>

RECURSIVE EscapedText(_, _)
EscapedText(s, ps) ==
    IF s = <<>> THEN <<>> ELSE Escaped(Head(s), ps) \o EscapedText(Tail(s), ps)

\* A pass that rewrites the inner content of every match and nothing else.
RECURSIVE InnerOnlyPass(_, _, _, _)
InnerOnlyPass(s, name, ps, pos) ==
    LET starts == {i \in pos..Len(s) : MatchAt(s, name, i).ok}
    IN  IF starts = {} THEN SubSeq(s, pos, Len(s))
        ELSE LET i == Min(starts)
                 m == MatchAt(s, name, i)
             IN  SubSeq(s, pos, m.gt)
                     \o EscapedText(SubSeq(s, m.gt + 1, m.cl - 1), ps)
                     \o SubSeq(s, m.cl, m.end)
                     \o InnerOnlyPass(s, name, ps, m.end + 1)

RECURSIVE InnerOnlyFrom(_, _, _, _)
InnerOnlyFrom(s, ign, ps, e) ==
    IF e > Len(ign) THEN s
    ELSE InnerOnlyFrom(InnerOnlyPass(s, ign[e], ps, 1), ign, ps, e + 1)

\* C9: protect mode rewrites the inner content of each match only: the
\* opening and the closing tag stay as they are and every '<', '>', newline,
\* carriage return and whitespace character of the inner content becomes its
\* sentinel, also when the inner text occurs earlier in the match.
C9_InnerOnly == gpc = "protected" => out = InnerOnlyFrom(html, ignore, Prefix, 1)

----------------------------------------------------------------------------
(* Properties of DeepMerger and ConfigValidator *)

\* The value a call returned, as a literal.
Returned == Deep(heap, res.v)

\* A literal list of strings.
StringList(l) == l.t = "arr" /\ \A i \in 1..Len(l.vals) : l.vals[i].t = "str"

\* A number with an integer value.
IntegerValued(v) == v.t = "num" /\ v.s = ""

\* The error the rules of tab_size ask for, "" when the value passes.
TabSizeError(v) ==
    IF v.t # "num" THEN ErrTabNumber
    ELSE IF ~IntegerValued(v) THEN ErrTabSafe
    ELSE IF v.n < 1 \/ v.n > 16 THEN ErrTabRange
    ELSE ""

\* The error of the earliest invalid field of a user configuration, in the
\* order tab_size, strict, ignore, ignore_with, trim; "" when all are valid.
FirstInvalid(c) ==
    IF HasOwn(c, "tab_size") /\ TabSizeError(Get(c, "tab_size")) # ""
    THEN TabSizeError(Get(c, "tab_size"))
    ELSE IF HasOwn(c, "strict") /\ Get(c, "strict").t # "bool" THEN ErrStrict
    ELSE IF HasOwn(c, "ignore") /\ ~StringList(Get(c, "ignore")) THEN ErrIgnore
    ELSE IF HasOwn(c, "ignore_with") /\ Get(c, "ignore_with").t # "str" THEN ErrIgnoreWith
    ELSE IF HasOwn(c, "trim") /\ ~StringList(Get(c, "trim")) THEN ErrTrim
    ELSE ""

\* The constraints of a Configuration.
ValidConfiguration(c) ==
    /\ c.t = "obj"
    /\ IntegerValued(Get(c, "tab_size")) /\ Get(c, "tab_size").n \in 1..16
    /\ Get(c, "strict").t = "bool"
    /\ StringList(Get(c, "ignore"))
    /\ StringList(Get(c, "trim"))
    /\ Get(c, "ignore_with").t = "str"

\* validateConfig was called on a plain object and the caller has not yet
\* touched what it returned.
ValidatedObject == res.fn = "validateConfig" /\ before[1].t = "obj" /\ ~touched

\* C2: the range check of tab_size: an integer-valued tab_size outside 1..16
\* raises the out-of-range error; one inside 1..16, the other fields being
\* valid, is the tab_size of the returned Configuration.
C2_TabSizeRange ==
    (ValidatedObject /\ HasOwn(before[1], "tab_size")
        /\ IntegerValued(Get(before[1], "tab_size")))
    => IF Get(before[1], "tab_size").n \in 1..16
       THEN FirstInvalid(before[1]) = ""
                => res.status = "ok" /\ Get(Returned, "tab_size") = Get(before[1], "tab_size")
       ELSE res.status = "throw" /\ res.err = ErrTabRange

\* C3: whenever validateConfig returns, every field of the returned
\* Configuration satisfies its constraint.
C3_ValidatedInvariant ==
    (res.fn = "validateConfig" /\ res.status = "ok" /\ ~touched)
    => ValidConfiguration(Returned)

\* C4: the shared default configuration keeps its initial values whatever
\* the callers do with the Configurations returned to them, and no returned
\* Configuration is CONFIG itself or shares an array with it.
C4_DefaultNeverCorrupted ==
    /\ Deep(heap, Ref(CONFIG)) = DefaultConfig
    /\ (res.fn \in {"validateConfig", "mergeConfig"} /\ res.status = "ok")
       => Reach(heap, res.v) \cap Reach(heap, Ref(CONFIG)) = {}

\* C5: mergeObjects(current, updates) leaves current as it was, and the
\* returned value shares no object or array with current: whatever the
\* caller then does to the returned value, current keeps its value.
C5_CurrentUntouched ==
    (res.fn = "mergeObjects" /\ res.status = "ok" /\ IsRef(arg[1]))
    => /\ Deep(heap, arg[1]) = before[1]
       /\ Reach(heap, res.v) \cap Reach(heap, arg[1]) = {}

\* The array-valued fields of updates that meet an array in current hold, in
\* the result, the elements of current's array followed by those of updates'.
FieldsConcatenated(cur, upd, r) ==
    \A i \in 1..Len(upd.keys) :
        LET k == upd.keys[i]
        IN  (Get(upd, k).t = "arr" /\ Get(cur, k).t = "arr")
            => Get(r, k).vals = Get(cur, k).vals \o Get(upd, k).vals

\* C6: array merge is concatenation: for arrays current and updates,
\* mergeObjects returns a new array of the elements of current, in order,
\* followed by those of updates, duplicates kept; so do the array-valued
\* fields reached by recursion, and the ignore and trim lists of a
\* Configuration are CONFIG's lists followed by the user's.
C6_ArrayConcatenation ==
    (res.status = "ok" /\ ~touched) =>
        /\ (res.fn = "mergeObjects" /\ before[1].t = "arr" /\ before[2].t = "arr")
           => /\ Returned.t = "arr"
              /\ Returned.vals = before[1].vals \o before[2].vals
              /\ Len(Returned.vals) = Len(before[1].vals) + Len(before[2].vals)
              /\ res.v # arg[1]
        /\ (res.fn = "mergeObjects" /\ before[1].t = "obj" /\ before[2].t = "obj")
           => FieldsConcatenated(before[1], before[2], Returned)
        /\ (res.fn = "mergeConfig")
           => FieldsConcatenated(base, before[2], Returned)
        /\ (res.fn = "validateConfig" /\ before[1].t = "obj" /\ res.v # Ref(CONFIG))
           => FieldsConcatenated(base, before[1], Returned)

\* validateConfig returned a Configuration whose ignore list is a non-empty
\* default list followed by a non-empty user list.
C6_Witness ==
    /\ res.fn = "validateConfig" /\ res.status = "ok" /\ ~touched
    /\ before[1].t = "obj" /\ HasOwn(before[1], "ignore")
    /\ Len(Get(base, "ignore").vals) >= 1
    /\ Len(Get(before[1], "ignore").vals) >= 1
    /\ Len(Get(Returned, "ignore").vals) >= 2

\* C7: the type gate of validateConfig: a user configuration that is no
\* plain object (a primitive, undefined, null, an array) raises the typed
\* "Config must be an object." error.
C7_TypeGate ==
    (res.fn = "validateConfig" /\ before[1].t # "obj")
    => res.status = "throw" /\ res.err = ErrObject

\* C8: the fields are checked in the order tab_size, strict, ignore,
\* ignore_with, trim: when any field is invalid the call raises, with the
\* error of the earliest invalid one, and returns nothing.
C8_ValidationOrder ==
    (res.fn = "validateConfig" /\ before[1].t = "obj" /\ FirstInvalid(before[1]) # "")
    => res.status = "throw" /\ res.err = FirstInvalid(before[1])

\* C10: validateConfig leaves the value of its input as it was, whether it
\* returns or raises and whatever the caller does afterwards with what it
\* returned; a tab_size with a fraction raises the not-safe error.
C10_InputUnchanged ==
    (res.fn = "validateConfig" /\ before[1].t = "obj")
    => /\ Deep(heap, arg[1]) = before[1]
       /\ (Get(before[1], "tab_size").t = "num" /\ Get(before[1], "tab_size").s = ".5")
          => res.status = "throw" /\ res.err = ErrTabSafe

\* validateConfig accepted a tab_size and wrote it back into its input.
C10_Witness ==
    /\ res.fn = "validateConfig" /\ res.status = "ok"
    /\ before[1].t = "obj"
    /\ Get(before[1], "tab_size") = Num(16)
    /\ Get(Deep(heap, arg[1]), "tab_size") = Num(16)

====
